---- MODULE Spec2Model ----
(***************************************************************************)
(* Model of src/subst.rs of egg: the pattern variable type Var (its        *)
(* constructors, its parser and its Display) and the substitution Subst    *)
(* (an association list of (Var, Id) pairs).                               *)
(*                                                                         *)
(* A text is a sequence of one-character strings.  A u32 is a pair         *)
(* <<hi, lo>> of 16-bit limbs, value hi * 2^16 + lo, so that the whole     *)
(* unsigned 32-bit range, and the overflow beyond it, is represented       *)
(* exactly.  A Symbol is a handle (an index) into the interning table.     *)
(***************************************************************************)
EXTENDS Integers, Sequences, FiniteSets

VARIABLES table, src, input, res, shown, back, vec, prev, last

varVars == <<table, src, input, res, shown, back>>
substVars == <<vec, prev, last>>
vars == <<table, src, input, res, shown, back, vec, prev, last>>

----------------------------------------------------------------------------
(* Bounds of the model *)

\* longest text of the exhaustively enumerated inputs of from_str
MaxLen == 4
\* other code interns a text only while the table holds fewer than this
MaxInterned == 1
\* longest pair sequence handed to from_iter
MaxPairs == 3
\* Ids are 0..MaxId
MaxId == 1
\* capacities handed to with_capacity are 0..MaxCap
MaxCap == 1

----------------------------------------------------------------------------
(* Texts *)

Alphabet == {"?", "#", "+", "0", "1", "a"}

RECURSIVE TextsOfLen(_)
TextsOfLen(n) ==
  IF n = 0 THEN {<<>>}
  ELSE {Append(t, c) : t \in TextsOfLen(n - 1), c \in Alphabet}

EnumTexts == UNION {TextsOfLen(n) : n \in 0..MaxLen}

\* the digit runs around the edge of the unsigned 32-bit range
U32MaxDigits == <<"4", "2", "9", "4", "9", "6", "7", "2", "9", "5">>

EdgeDigits ==
  { U32MaxDigits,
    <<"4", "2", "9", "4", "9", "6", "7", "2", "9", "6">>,
    <<"4", "2", "9", "4", "9", "6", "7", "3", "0", "0">>,
    <<"0", "4", "2", "9", "4", "9", "6", "7", "2", "9", "5">>,
    <<"4", "2", "9", "4", "9", "6", "7", "2", "9", "5", "0">>,
    <<"9", "9", "9", "9", "9", "9", "9", "9", "9", "9">>,
    <<"1", "0", "0", "0", "0", "0", "0", "0", "0", "0", "0">>,
    <<"0", "0", "1", "0">>,
    <<"6", "5", "5", "3", "6">>,
    <<"8", "-", "3">>,
    <<"-", "8">> }

EdgeTexts ==
  {<<"?", "#">> \o d : d \in EdgeDigits} \cup
  {<<"?", "#", "+">> \o d : d \in EdgeDigits} \cup
  {<<"?", "a", "b", "c", " ", "1", "2", "3">>, <<"a", "?">>}

Texts == EnumTexts \cup EdgeTexts

\* the texts other code interns
SymbolPool ==
  { <<>>, <<"a">>, <<"?">>, <<"?", "a">>, <<"?", "#">>, <<"?", "#", "1">> }

----------------------------------------------------------------------------
(* u32 as two 16-bit limbs *)

Base == 2 ^ 16

U32Zero == <<0, 0>>

IsDigit(c) == c \in {"0", "1", "2", "3", "4", "5", "6", "7", "8", "9"}

DigitVal(c) ==
  CASE c = "0" -> 0 [] c = "1" -> 1 [] c = "2" -> 2 [] c = "3" -> 3
    [] c = "4" -> 4 [] c = "5" -> 5 [] c = "6" -> 6 [] c = "7" -> 7
    [] c = "8" -> 8 [] c = "9" -> 9

DigitChar(d) ==
  CASE d = 0 -> "0" [] d = 1 -> "1" [] d = 2 -> "2" [] d = 3 -> "3"
    [] d = 4 -> "4" [] d = 5 -> "5" [] d = 6 -> "6" [] d = 7 -> "7"
    [] d = 8 -> "8" [] d = 9 -> "9"

\* n * 10 + d, or overflow: u32::checked_mul followed by u32::checked_add
MulAdd10(n, d) ==
  LET lo == n[2] * 10 + d
      hi == n[1] * 10 + (lo \div Base)
  IN  IF hi >= Base THEN [ok |-> FALSE, val |-> U32Zero]
      ELSE [ok |-> TRUE, val |-> <<hi, lo % Base>>]

\* the digit loop of the integer parser, left to right from the accumulator acc
RECURSIVE ParseDigits(_, _)
ParseDigits(s, acc) ==
  IF s = <<>> THEN [ok |-> TRUE, val |-> acc, kind |-> "none"]
  ELSE IF ~IsDigit(Head(s)) THEN [ok |-> FALSE, val |-> U32Zero, kind |-> "InvalidDigit"]
  ELSE LET m == MulAdd10(acc, DigitVal(Head(s)))
       IN  IF ~m.ok THEN [ok |-> FALSE, val |-> U32Zero, kind |-> "PosOverflow"]
           ELSE ParseDigits(Tail(s), m.val)

\* str::parse::<u32>: an optional "+" and then decimal digits only
ParseU32(s) ==
  IF s = <<>> THEN [ok |-> FALSE, val |-> U32Zero, kind |-> "Empty"]
  ELSE IF Len(s) = 1 /\ Head(s) \in {"+", "-"}
    THEN [ok |-> FALSE, val |-> U32Zero, kind |-> "InvalidDigit"]
  ELSE IF Head(s) = "+" THEN ParseDigits(Tail(s), U32Zero)
  ELSE ParseDigits(s, U32Zero)

\* the decimal digits of n, most significant first, no leading zeros
RECURSIVE FmtU32(_)
FmtU32(n) ==
  LET t == (n[1] % 10) * Base + n[2]
      q == <<n[1] \div 10, t \div 10>>
      d == DigitChar(t % 10)
  IN  IF q = U32Zero THEN <<d>> ELSE Append(FmtU32(q), d)

----------------------------------------------------------------------------
(* Symbol: the interning table *)

\* Symbol::from(text): the handle of text, interning it if it is new
Intern(tab, t) ==
  IF \E i \in 1..Len(tab) : tab[i] = t
    THEN [tab |-> tab, sym |-> CHOOSE i \in 1..Len(tab) : tab[i] = t]
    ELSE [tab |-> Append(tab, t), sym |-> Len(tab) + 1]

\* Symbol::as_str / Display of a Symbol
as_str(tab, sym) == tab[sym]

----------------------------------------------------------------------------
(* Var *)

Num(n) == [tag |-> "Num", num |-> n, sym |-> 0]
Sym(s) == [tag |-> "Sym", num |-> U32Zero, sym |-> s]

from_u32(num) == Num(num)

From_u32(num) == Num(num)

from_symbol(s) == Sym(s)

as_u32(v) == IF v.tag = "Num" THEN [tag |-> "Some", num |-> v.num]
             ELSE [tag |-> "None", num |-> U32Zero]

NoVar == [tag |-> "NoVar", num |-> U32Zero, sym |-> 0]
NoResult == [tag |-> "None", var |-> NoVar, text |-> <<>>]
Ok(v) == [tag |-> "Ok", var |-> v, text |-> <<>>]
MissingQuestionMark(s) == [tag |-> "MissingQuestionMark", var |-> NoVar, text |-> s]
BadNumber(s) == [tag |-> "BadNumber", var |-> NoVar, text |-> s]

\* from_str without the s.len() > 1 guard of its second arm
from_str_noLenGuard(s, tab) ==
  IF Len(s) >= 2 /\ s[1] = "?" /\ s[2] = "#" THEN
    LET p == ParseU32(SubSeq(s, 3, Len(s)))
    IN  [res |-> IF p.ok THEN Ok(Num(p.val)) ELSE BadNumber(s), tab |-> tab]
  ELSE IF Len(s) >= 1 /\ s[1] = "?" THEN
    LET i == Intern(tab, s)
    IN  [res |-> Ok(Sym(i.sym)), tab |-> i.tab]
  ELSE [res |-> MissingQuestionMark(s), tab |-> tab]

\* from_str whose second arm matches any leading byte, not only b'?'
from_str_anyLead(s, tab) ==
  IF Len(s) >= 2 /\ s[1] = "?" /\ s[2] = "#" THEN
    LET p == ParseU32(SubSeq(s, 3, Len(s)))
    IN  [res |-> IF p.ok THEN Ok(Num(p.val)) ELSE BadNumber(s), tab |-> tab]
  ELSE IF Len(s) > 1 THEN
    LET i == Intern(tab, s)
    IN  [res |-> Ok(Sym(i.sym)), tab |-> i.tab]
  ELSE [res |-> MissingQuestionMark(s), tab |-> tab]

\* from_str that interns s[1..], the text without its question mark
from_str_internTail(s, tab) ==
  IF Len(s) >= 2 /\ s[1] = "?" /\ s[2] = "#" THEN
    LET p == ParseU32(SubSeq(s, 3, Len(s)))
    IN  [res |-> IF p.ok THEN Ok(Num(p.val)) ELSE BadNumber(s), tab |-> tab]
  ELSE IF Len(s) >= 1 /\ s[1] = "?" /\ Len(s) > 1 THEN
    LET i == Intern(tab, Tail(s))
    IN  [res |-> Ok(Sym(i.sym)), tab |-> i.tab]
  ELSE [res |-> MissingQuestionMark(s), tab |-> tab]

\* from_str that parses s[1..], the "#" included, as the number
from_str_skipOne(s, tab) ==
  IF Len(s) >= 2 /\ s[1] = "?" /\ s[2] = "#" THEN
    LET p == ParseU32(SubSeq(s, 2, Len(s)))
    IN  [res |-> IF p.ok THEN Ok(Num(p.val)) ELSE BadNumber(s), tab |-> tab]
  ELSE IF Len(s) >= 1 /\ s[1] = "?" /\ Len(s) > 1 THEN
    LET i == Intern(tab, s)
    IN  [res |-> Ok(Sym(i.sym)), tab |-> i.tab]
  ELSE [res |-> MissingQuestionMark(s), tab |-> tab]

\* <Var as FromStr>::from_str: the result and the interning table afterwards
from_str(s, tab) ==
  IF Len(s) >= 2 /\ s[1] = "?" /\ s[2] = "#" THEN
    LET p == ParseU32(SubSeq(s, 3, Len(s)))
    IN  [res |-> IF p.ok THEN Ok(Num(p.val)) ELSE BadNumber(s), tab |-> tab]
  ELSE IF Len(s) >= 1 /\ s[1] = "?" /\ Len(s) > 1 THEN
    LET i == Intern(tab, s)
    IN  [res |-> Ok(Sym(i.sym)), tab |-> i.tab]
  ELSE [res |-> MissingQuestionMark(s), tab |-> tab]

\* Display that writes a numeric variable as "?{}", without the "#"
Display_fmt_noHash(v, tab) ==
  IF v.tag = "Sym" THEN as_str(tab, v.sym)
  ELSE <<"?">> \o FmtU32(v.num)

\* <Var as Display>::fmt
Display_fmt(v, tab) ==
  IF v.tag = "Sym" THEN as_str(tab, v.sym)
  ELSE <<"?", "#">> \o FmtU32(v.num)

U32Samples ==
  { <<0, 0>>, <<0, 1>>, <<0, 10>>, <<0, 12>>, <<0, Base - 1>>, <<1, 0>>,
    <<Base - 1, Base - 1>>, <<Base - 1, Base - 2>>, <<15258, 51712>> }

NoText == <<"none">>

InitVar ==
  /\ table = <<>>
  /\ src = "none"
  /\ input = <<>>
  /\ res = NoResult
  /\ shown = NoText
  /\ back = NoResult

\* other code interns a text, at any time
InternText(t) ==
  /\ Len(table) < MaxInterned
  /\ table' = Intern(table, t).tab
  /\ UNCHANGED <<src, input, res, shown, back, vec, prev, last>>

\* text.parse::<Var>()
Parse(t) ==
  /\ src = "none"
  /\ src' = "from_str"
  /\ input' = t
  /\ res' = from_str(t, table).res
  /\ table' = from_str(t, table).tab
  /\ UNCHANGED <<shown, back, vec, prev, last>>

\* Var::from_u32(n)
FromU32(n) ==
  /\ src = "none"
  /\ src' = "from_u32"
  /\ res' = Ok(from_u32(n))
  /\ UNCHANGED <<table, input, shown, back, vec, prev, last>>

\* Var::from(n)
FromNum(n) ==
  /\ src = "none"
  /\ src' = "from"
  /\ res' = Ok(From_u32(n))
  /\ UNCHANGED <<table, input, shown, back, vec, prev, last>>

\* Var::from_symbol(s) of an interned handle
FromSymbol(s) ==
  /\ src = "none"
  /\ src' = "from_symbol"
  /\ res' = Ok(from_symbol(s))
  /\ UNCHANGED <<table, input, shown, back, vec, prev, last>>

\* var.to_string()
Show ==
  /\ res.tag = "Ok"
  /\ shown = NoText
  /\ shown' = Display_fmt(res.var, table)
  /\ UNCHANGED <<table, src, input, res, back, vec, prev, last>>

\* var.to_string().parse::<Var>()
ParseShown ==
  /\ shown # NoText
  /\ back = NoResult
  /\ back' = from_str(shown, table).res
  /\ table' = from_str(shown, table).tab
  /\ UNCHANGED <<src, input, res, shown, vec, prev, last>>

\* Parse with any of the texts
ParseAny == src = "none" /\ \E t \in Texts : Parse(t)

NextVar ==
  \/ \E t \in SymbolPool : InternText(t)
  \/ ParseAny
  \/ \E n \in U32Samples : FromU32(n)
  \/ \E n \in U32Samples : FromNum(n)
  \/ \E s \in 1..Len(table) : FromSymbol(s)
  \/ Show
  \/ ParseShown

----------------------------------------------------------------------------
(* What the claims about Var speak of, stated on the texts themselves *)

StartsWith(s, p) == Len(s) >= Len(p) /\ SubSeq(s, 1, Len(p)) = p

AllDigits(ds) == \A i \in 1..Len(ds) : IsDigit(ds[i])

\* a digit run without its leading zeros, one digit at least
RECURSIVE StripZeros(_)
StripZeros(ds) ==
  IF Len(ds) > 1 /\ Head(ds) = "0" THEN StripZeros(Tail(ds)) ELSE ds

\* a < b for two digit runs of the same length
RECURSIVE DigitsLess(_, _)
DigitsLess(a, b) ==
  IF a = <<>> THEN FALSE
  ELSE IF DigitVal(Head(a)) # DigitVal(Head(b))
    THEN DigitVal(Head(a)) < DigitVal(Head(b))
  ELSE DigitsLess(Tail(a), Tail(b))

\* the value of the digit run ds is beyond 4294967295
ExceedsU32(ds) ==
  LET c == StripZeros(ds)
  IN  \/ Len(c) > Len(U32MaxDigits)
      \/ Len(c) = Len(U32MaxDigits) /\ DigitsLess(U32MaxDigits, c)

\* the text after the two characters "?#"
Rest(s) == SubSeq(s, 3, Len(s))

Parsed == src = "from_str"

NumericPrefix == StartsWith(input, <<"?", "#">>)

\* the interned text has the shape of a symbol variable
SymbolShape(t) == Len(t) > 1 /\ t[1] = "?"

\* C5 (as claimed): after "?#", an empty remainder, a remainder holding a
\* character that is no decimal digit, or a digit run beyond the unsigned
\* 32-bit range makes the parse fail with BadNumber of the original text.
C5_BadNumber ==
  (Parsed /\ NumericPrefix /\
     (Rest(input) = <<>> \/ ~AllDigits(Rest(input)) \/ ExceedsU32(Rest(input))))
  => res = BadNumber(input)

\* C6 (as claimed): every "?#" followed by one or more decimal digits parses
\* to the numeric variant and displays as "?#" and the canonical decimal.
C6_EveryDigitRun ==
  (Parsed /\ NumericPrefix /\ Rest(input) # <<>> /\ AllDigits(Rest(input)))
  => /\ res.tag = "Ok"
     /\ res.var.tag = "Num"
     /\ shown # NoText => shown = <<"?", "#">> \o StripZeros(Rest(input))

\* C6 (amended): every "?#" followed by one or more decimal digits whose
\* value is at most 4294967295 parses to the numeric variant, equal to the
\* parse of the text without the leading zeros, and displays as "?#" and
\* the canonical decimal (no leading zeros).
C6_NumericCanonical ==
  (Parsed /\ NumericPrefix /\ Rest(input) # <<>> /\ AllDigits(Rest(input))
     /\ ~ExceedsU32(Rest(input)))
  => /\ res.tag = "Ok"
     /\ res.var.tag = "Num"
     /\ res = from_str(<<"?", "#">> \o StripZeros(Rest(input)), table).res
     /\ shown # NoText => shown = <<"?", "#">> \o StripZeros(Rest(input))

C6_Witness ==
  /\ Parsed
  /\ input = <<"?", "#", "0", "0", "1", "0">>
  /\ res = Ok(Num(<<0, 10>>))
  /\ shown = <<"?", "#", "1", "0">>

\* C7: the parse fails with MissingQuestionMark of the original text exactly
\* when the text is empty, does not begin with "?", or is the single
\* character "?"; every other text gives a Var or BadNumber.
C7_MissingQuestionMark ==
  Parsed =>
    LET missing == input = <<>> \/ input[1] # "?" \/ input = <<"?">>
    IN  /\ missing => res = MissingQuestionMark(input)
        /\ ~missing => res.tag \in {"Ok", "BadNumber"}

C7_Witness ==
  /\ Parsed
  /\ input = <<"?">>
  /\ res = MissingQuestionMark(<<"?">>)

\* C8 (as claimed): "?" and a non-empty suffix that is not "#" followed by
\* a digit run parses to the symbol variant interning the whole text, and
\* displays as the text.
C8_NotNumericSuffix ==
  (Parsed /\ Len(input) > 1 /\ input[1] = "?" /\
     ~(NumericPrefix /\ Rest(input) # <<>> /\ AllDigits(Rest(input))))
  => /\ res.tag = "Ok"
     /\ res.var.tag = "Sym"
     /\ as_str(table, res.var.sym) = input
     /\ shown # NoText => shown = input

\* C8 (amended): "?" and a non-empty suffix that does not begin with "#"
\* parses to the symbol variant interning the whole text, the "?" included,
\* and displays as the text.
C8_SymbolRoundTrip ==
  (Parsed /\ Len(input) > 1 /\ input[1] = "?" /\ input[2] # "#")
  => /\ res.tag = "Ok"
     /\ res.var.tag = "Sym"
     /\ as_str(table, res.var.sym) = input
     /\ shown # NoText => shown = input

C8_Witness ==
  /\ Parsed
  /\ input = <<"?", "a", "b", "c", " ", "1", "2", "3">>
  /\ res.tag = "Ok"
  /\ res.var.tag = "Sym"
  /\ shown = input

\* C9 (as claimed): a symbol-backed Var built by the parser or by
\* from_symbol wraps a text that begins with "?" and is longer than 1.
C9_EverySymbolVar ==
  (src \in {"from_str", "from_symbol"} /\ res.tag = "Ok" /\ res.var.tag = "Sym")
  => SymbolShape(as_str(table, res.var.sym))

\* C9 (amended): a symbol-backed Var built by the parser wraps a text that
\* begins with "?" and is longer than 1.
C9_ParsedSymbolShape ==
  /\ (Parsed /\ res.tag = "Ok" /\ res.var.tag = "Sym")
       => SymbolShape(as_str(table, res.var.sym))
  /\ (back.tag = "Ok" /\ back.var.tag = "Sym")
       => SymbolShape(as_str(table, back.var.sym))

C9_Witness ==
  /\ Parsed
  /\ res.tag = "Ok"
  /\ res.var.tag = "Sym"
  /\ res.var.sym = 2
  /\ Len(input) = 2

\* C10: for a Var from a successful parse, from from_u32 or from From<u32>,
\* parsing its display text succeeds and gives back an equal Var.
C10_DisplayParseIdentity ==
  (src \in {"from_str", "from_u32", "from"} /\ back # NoResult)
  => back = Ok(res.var)

C10_Witness ==
  /\ src = "from_u32"
  /\ res = Ok(Num(<<Base - 1, Base - 1>>))
  /\ shown = <<"?", "#">> \o U32MaxDigits
  /\ back = res

----------------------------------------------------------------------------
(* Subst: vec is the sequence of (Var, Id) pairs, a pair being <<var, id>> *)

Ids == 0..MaxId

\* the variables the substitutions of the model bind
SubstVars == {Num(<<0, 0>>), Num(<<0, 1>>), Sym(1)}

Pairs == SubstVars \X Ids

RECURSIVE PairSeqsOfLen(_)
PairSeqsOfLen(n) ==
  IF n = 0 THEN {<<>>}
  ELSE {Append(q, p) : q \in PairSeqsOfLen(n - 1), p \in Pairs}

PairSeqs == UNION {PairSeqsOfLen(n) : n \in 0..MaxPairs}

NoId == [tag |-> "None", id |-> 0]
SomeId(id) == [tag |-> "Some", id |-> id]
Panic == [tag |-> "Panic", id |-> 0]
Unit == [tag |-> "Unit", id |-> 0]

\* the positions of the pairs of v whose key is var
Matches(v, var) == {i \in 1..Len(v) : v[i][1] = var}

\* the first of a non-empty set of positions: where a front-to-back scan stops
First(S) == CHOOSE i \in S : \A j \in S : i <= j

\* Subst::default()
Default_default == <<>>

\* Subst::with_capacity(capacity)
with_capacity(capacity) == <<>>

\* insert that removes the old pair and pushes the new one at the end
insert_moveToEnd(v, var, id) ==
  IF Matches(v, var) # {}
    THEN LET i == First(Matches(v, var))
         IN  [vec |-> Append(SubSeq(v, 1, i - 1) \o SubSeq(v, i + 1, Len(v)), <<var, id>>),
              ret |-> SomeId(v[i][2])]
    ELSE [vec |-> Append(v, <<var, id>>), ret |-> NoId]

\* Subst::insert(var, id): the pairs afterwards and the value returned
insert(v, var, id) ==
  IF Matches(v, var) # {}
    THEN LET i == First(Matches(v, var))
         IN  [vec |-> [v EXCEPT ![i] = <<var, id>>], ret |-> SomeId(v[i][2])]
    ELSE [vec |-> Append(v, <<var, id>>), ret |-> NoId]

\* Subst::get(var)
get(v, var) ==
  IF Matches(v, var) # {} THEN SomeId(v[First(Matches(v, var))][2]) ELSE NoId

\* Subst::len()
len(v) == Len(v)

\* Subst::is_empty()
is_empty(v) == Len(v) = 0

\* Subst::iter(): the (Var, Id) pairs in the order of vec
iter(v) == [i \in 1..Len(v) |-> <<v[i][1], v[i][2]>>]

\* index that falls back to the default Id where it should panic
index_orDefault(v, var) ==
  IF get(v, var).tag = "Some" THEN get(v, var) ELSE SomeId(0)

\* <Subst as Index<Var>>::index(var)
index(v, var) ==
  IF get(v, var).tag = "Some" THEN get(v, var) ELSE Panic

\* Itertools::unique_by on the key: an element passes if its key is new
RECURSIVE UniqueBy(_, _)
UniqueBy(pairs, used) ==
  IF pairs = <<>> THEN <<>>
  ELSE IF Head(pairs)[1] \in used THEN UniqueBy(Tail(pairs), used)
  ELSE <<Head(pairs)>> \o UniqueBy(Tail(pairs), used \cup {Head(pairs)[1]})

\* from_iter that collects the pairs as they come, without unique_by
from_iter_noUnique(pairs) == pairs

\* the last pair of every key, at the place of the key's first pair
RECURSIVE LastWins(_, _)
LastWins(pairs, acc) ==
  IF pairs = <<>> THEN acc
  ELSE LET p == Head(pairs)
           at == {i \in 1..Len(acc) : acc[i][1] = p[1]}
       IN  LastWins(Tail(pairs),
                    IF at = {} THEN Append(acc, p)
                    ELSE [i \in 1..Len(acc) |-> IF i \in at THEN p ELSE acc[i]])

\* from_iter that keeps the last pair of every key
from_iter_lastWins(pairs) == LastWins(pairs, <<>>)

\* <Subst as FromIterator<(Var, Id)>>::from_iter(iter)
from_iter(pairs) == UniqueBy(pairs, {})

NoVarArg == NoVar

Call(op, var, id, arg, ret) ==
  [op |-> op, var |-> var, id |-> id, arg |-> arg, ret |-> ret]

\* no Subst is built yet
InitSubst ==
  /\ vec = <<>>
  /\ prev = <<>>
  /\ last = Call("none", NoVarArg, 0, <<>>, Unit)

\* the Subst is built, and no panic has ended the run
Running == last.op # "none" /\ last.ret.tag # "Panic"

NewDefault ==
  /\ last.op = "none"
  /\ vec' = Default_default
  /\ prev' = <<>>
  /\ last' = Call("default", NoVarArg, 0, <<>>, Unit)
  /\ UNCHANGED varVars

NewWithCapacity(n) ==
  /\ last.op = "none"
  /\ vec' = with_capacity(n)
  /\ prev' = <<>>
  /\ last' = Call("with_capacity", NoVarArg, 0, <<>>, Unit)
  /\ UNCHANGED varVars

Collect(pairs) ==
  /\ last.op = "none"
  /\ vec' = from_iter(pairs)
  /\ prev' = <<>>
  /\ last' = Call("from_iter", NoVarArg, 0, pairs, Unit)
  /\ UNCHANGED varVars

Insert(var, id) ==
  /\ Running
  /\ vec' = insert(vec, var, id).vec
  /\ prev' = vec
  /\ last' = Call("insert", var, id, <<>>, insert(vec, var, id).ret)
  /\ UNCHANGED varVars

Get(var) ==
  /\ Running
  /\ vec' = vec
  /\ prev' = vec
  /\ last' = Call("get", var, 0, <<>>, get(vec, var))
  /\ UNCHANGED varVars

Index(var) ==
  /\ Running
  /\ vec' = vec
  /\ prev' = vec
  /\ last' = Call("index", var, 0, <<>>, index(vec, var))
  /\ UNCHANGED varVars

\* Collect with any of the pair sequences
CollectAny == last.op = "none" /\ \E pairs \in PairSeqs : Collect(pairs)

NextSubst ==
  \/ NewDefault
  \/ \E n \in 0..MaxCap : NewWithCapacity(n)
  \/ CollectAny
  \/ \E var \in SubstVars, id \in Ids : Insert(var, id)
  \/ \E var \in SubstVars : Get(var)
  \/ \E var \in SubstVars : Index(var)

----------------------------------------------------------------------------
(* What the claims about Subst speak of *)

Keys(v) == {v[i][1] : i \in 1..Len(v)}

Bound(v, var) == var \in Keys(v)

\* the positions of pairs where a key occurs for the first time
FirstAt(pairs) ==
  {j \in 1..Len(pairs) : \A k \in 1..(j - 1) : pairs[k][1] # pairs[j][1]}

\* the positions of pairs where a key occurs for the last time
LastAt(pairs) ==
  {j \in 1..Len(pairs) : \A k \in (j + 1)..Len(pairs) : pairs[k][1] # pairs[j][1]}

\* the n-th smallest member of the set S of positions
Nth(S, n) == CHOOSE j \in S : Cardinality({k \in S : k <= j}) = n

\* the pairs at the positions S, in their order
Picked(pairs, S) == [n \in 1..Cardinality(S) |-> pairs[Nth(S, n)]]

\* the substitution reached by inserting the pairs one by one
RECURSIVE InsertAll(_, _)
InsertAll(pairs, v) ==
  IF pairs = <<>> THEN v
  ELSE InsertAll(Tail(pairs), insert(v, Head(pairs)[1], Head(pairs)[2]).vec)

\* some key comes again with an Id other than that of its first pair
RepeatsWithOtherId(pairs) ==
  \E j \in FirstAt(pairs) : \E k \in (j + 1)..Len(pairs) :
    pairs[k][1] = pairs[j][1] /\ pairs[k][2] # pairs[j][2]

\* the last pair of some key has an Id other than that of its first pair
LastDiffersFromFirst(pairs) ==
  \E j \in FirstAt(pairs) : \E k \in LastAt(pairs) :
    pairs[k][1] = pairs[j][1] /\ pairs[k][2] # pairs[j][2]

\* C1: insert(var, id) on a bound var replaces the value of var's pair in
\* place (keys, positions, the other pairs and len() unchanged) and returns
\* the previous id; on an unbound var it appends (var, id) as the last pair,
\* leaves the existing pairs alone, adds 1 to len() and returns nothing.
C1_InsertUpsert ==
  last.op = "insert" =>
    IF Bound(prev, last.var)
      THEN /\ len(vec) = len(prev)
           /\ \A i \in 1..Len(prev) :
                /\ vec[i][1] = prev[i][1]
                /\ prev[i][1] = last.var =>
                     vec[i][2] = last.id /\ last.ret = SomeId(prev[i][2])
                /\ prev[i][1] # last.var => vec[i] = prev[i]
      ELSE /\ len(vec) = len(prev) + 1
           /\ vec[Len(vec)] = <<last.var, last.id>>
           /\ SubSeq(vec, 1, Len(prev)) = prev
           /\ last.ret = NoId

C1_Witness ==
  /\ last.op = "insert"
  /\ Len(prev) = 3
  /\ prev[1][1] = last.var
  /\ prev[1][2] # last.id
  /\ last.ret = SomeId(prev[1][2])
  /\ vec[1] = <<last.var, last.id>>

\* C2: in every state reached from default, with_capacity or from_iter (of
\* any pair sequence) by insert calls, the keys of the stored pairs are
\* pairwise distinct, so len() is the number of bound variables.
C2_DistinctKeys ==
  /\ \A i, j \in 1..Len(vec) : vec[i][1] = vec[j][1] => i = j
  /\ len(vec) = Cardinality(Keys(vec))
  /\ is_empty(vec) <=> Keys(vec) = {}

C2_Witness ==
  /\ last.op = "insert"
  /\ Bound(prev, last.var)
  /\ Len(vec) = 3

\* C3 (as claimed): from_iter keeps, for each Var, the pair of its first
\* occurrence, in the order of the first occurrences, and the result
\* differs from inserting the pairs one by one whenever a Var comes again
\* with a different Id.
C3_DiffersWheneverRepeated ==
  last.op = "from_iter" =>
    /\ vec = Picked(last.arg, FirstAt(last.arg))
    /\ RepeatsWithOtherId(last.arg) => vec # InsertAll(last.arg, <<>>)

\* C3 (amended): from_iter keeps, for each Var, the pair of its first
\* occurrence, in the order of the first occurrences, and the result
\* differs from inserting the pairs one by one exactly when the last pair
\* of some Var has an Id other than that of its first pair.
C3_FirstWins ==
  last.op = "from_iter" =>
    /\ vec = Picked(last.arg, FirstAt(last.arg))
    /\ vec # InsertAll(last.arg, <<>>) <=> LastDiffersFromFirst(last.arg)

C3_Witness ==
  /\ last.op = "from_iter"
  /\ Len(last.arg) = 3
  /\ last.arg[1][1] = last.arg[3][1]
  /\ last.arg[1][1] # last.arg[2][1]
  /\ last.arg[1][2] # last.arg[3][2]
  /\ vec = <<last.arg[1], last.arg[2]>>

\* C4: on a bound var, get and indexed access both return the id bound to
\* it; on an unbound var get returns absence and indexed access panics;
\* neither changes the contents or the order of the substitution.
C4_Lookup ==
  last.op \in {"get", "index"} =>
    /\ vec = prev
    /\ \A i \in 1..Len(vec) : vec[i][1] = last.var => last.ret = SomeId(vec[i][2])
    /\ ~Bound(vec, last.var) =>
         last.ret = (IF last.op = "get" THEN NoId ELSE Panic)

C4_Witness ==
  /\ last.op = "index"
  /\ vec # <<>>
  /\ ~Bound(vec, last.var)
  /\ last.ret = Panic

Init == InitVar /\ InitSubst

SpecVar == Init /\ [][NextVar]_vars

SpecSubst == Init /\ [][NextSubst]_vars

====
